---- MODULE Spec2Model ----
(***************************************************************************)
(* A model of fetcher.py: the company-website -> reference-article         *)
(* resolver.  Strings are sequences of one-character strings, so that      *)
(* normalisation, trimming, case folding, percent-coding and pattern       *)
(* scans are computed the way the Python code computes them.               *)
(***************************************************************************)
EXTENDS Naturals, Integers, Sequences, FiniteSets, TLC

VARIABLES
    norm,    \* SpecNorm: an input of normalize_domain and its results
    path,    \* SpecPath: two links and their normalized paths
    match,   \* SpecMatch: a document, a target and the matcher's answer
    extr,    \* SpecExtract: a document and the two extractions from it
    reso,    \* SpecResolve: a parent document, entities and their domains
    run      \* Spec: one run of target()

vars == <<norm, path, match, extr, reso, run>>

\* The value of the variables a specification does not use.
Idle == [pc |-> "idle"]

\* ------------------------------------------------------------------------
\* Python values and string primitives
\* ------------------------------------------------------------------------

\* Python's None.  Every real string is a sequence of one-character strings,
\* so this value is never equal to a string.
None == <<"<None>">>

\* "if not x" for an optional string: None and "" are both falsy.
Falsy(s) == s = None \/ s = <<>>

UpperLetters == <<"A","B","C","D","E","F","G","H","I","J","K","L","M",
                  "N","O","P","Q","R","S","T","U","V","W","X","Y","Z">>

LowerLetters == <<"a","b","c","d","e","f","g","h","i","j","k","l","m",
                  "n","o","p","q","r","s","t","u","v","w","x","y","z">>

Digits == <<"0","1","2","3","4","5","6","7","8","9">>

InSeq(c, s) == \E i \in 1..Len(s) : s[i] = c

IndexIn(c, s) == CHOOSE i \in 1..Len(s) : s[i] = c

\* str.lower() and str.upper() on one character.
LowerChar(c) == IF InSeq(c, UpperLetters) THEN LowerLetters[IndexIn(c, UpperLetters)] ELSE c

UpperChar(c) == IF InSeq(c, LowerLetters) THEN UpperLetters[IndexIn(c, LowerLetters)] ELSE c

lower(s) == [i \in 1..Len(s) |-> LowerChar(s[i])]

IsSpace(c) == c \in {" ", "\t", "\n"}

RECURSIVE lstrip(_)
lstrip(s) == IF s # <<>> /\ IsSpace(Head(s)) THEN lstrip(Tail(s)) ELSE s

RECURSIVE rstrip(_)
rstrip(s) == IF s # <<>> /\ IsSpace(s[Len(s)]) THEN rstrip(SubSeq(s, 1, Len(s) - 1)) ELSE s

\* str.strip()
strip(s) == rstrip(lstrip(s))

\* s.startswith(p), s.endswith(p)
startswith(s, p) == Len(p) <= Len(s) /\ SubSeq(s, 1, Len(p)) = p

endswith(s, p) == Len(p) <= Len(s) /\ SubSeq(s, Len(s) - Len(p) + 1, Len(s)) = p

\* "p in s" for strings: p occurs in s as a substring.
contains(s, p) == \E i \in 1..(Len(s) + 1) : i + Len(p) - 1 <= Len(s) /\ SubSeq(s, i, i + Len(p) - 1) = p

\* s.replace(p, r): leftmost non-overlapping occurrences, p non-empty.
RECURSIVE replace(_, _, _)
replace(s, p, r) ==
    IF s = <<>> THEN <<>>
    ELSE IF startswith(s, p) THEN r \o replace(SubSeq(s, Len(p) + 1, Len(s)), p, r)
    ELSE <<Head(s)>> \o replace(Tail(s), p, r)

\* s.split(c)[0]: the part of s before the first c (all of s when there is none).
RECURSIVE split_first(_, _)
split_first(s, c) ==
    IF s = <<>> \/ Head(s) = c THEN <<>>
    ELSE <<Head(s)>> \o split_first(Tail(s), c)

\* s.split(c): s is cut at every c.
RECURSIVE split(_, _)
split(s, c) ==
    LET first == split_first(s, c)
    IN  IF Len(first) = Len(s) THEN <<first>>
        ELSE <<first>> \o split(SubSeq(s, Len(first) + 2, Len(s)), c)

\* Concatenation of a sequence of strings.
RECURSIVE concat(_)
concat(ss) == IF ss = <<>> THEN <<>> ELSE Head(ss) \o concat(Tail(ss))

\* ------------------------------------------------------------------------
\* String literals of the source
\* ------------------------------------------------------------------------
S_https == <<"h","t","t","p","s",":","/","/">>

S_http == <<"h","t","t","p",":","/","/">>

S_www == <<"w","w","w",".">>

S_wiki == <<"/","w","i","k","i","/">>

\* ------------------------------------------------------------------------
\* normalize_domain
\* ------------------------------------------------------------------------

normalize_domain(url) ==
    IF Falsy(url) THEN None
    ELSE LET u1 == replace(replace(url, S_https, <<>>), S_http, <<>>)
             u2 == IF startswith(u1, S_www) THEN SubSeq(u1, 5, Len(u1)) ELSE u1
             u3 == split_first(u2, "/")
             u4 == split_first(u3, ":")
         IN  strip(lower(u4))

\* ------------------------------------------------------------------------
\* urllib.parse: urlparse(url).path, unquote, quote
\* ------------------------------------------------------------------------

\* The double quote, the backslash and the backtick, named (they are in no
\* input below).
Backtick == "<backtick>"

DQuote == "<dquote>"

Backslash == "<backslash>"

\* The printable ASCII characters, code 32 (space) to 126 (~), in code order.
Ascii == <<" ","!",DQuote,"#","$","%","&","'","(",")","*","+",",","-",".","/",
           "0","1","2","3","4","5","6","7","8","9",":",";","<","=",">","?",
           "@","A","B","C","D","E","F","G","H","I","J","K","L","M","N","O",
           "P","Q","R","S","T","U","V","W","X","Y","Z","[",Backslash,"]","^","_",
           Backtick,"a","b","c","d","e","f","g","h","i","j","k","l","m","n","o",
           "p","q","r","s","t","u","v","w","x","y","z","{","|","}","~">>

HexUpper == <<"0","1","2","3","4","5","6","7","8","9","A","B","C","D","E","F">>

IsHex(c) == InSeq(UpperChar(c), HexUpper)

HexVal(c) == IndexIn(UpperChar(c), HexUpper) - 1

\* A byte that unquote cannot decode to a printable ASCII character (the code
\* decodes it with errors='replace'); it stands for U+FFFD.
ReplacementChar == "<U+FFFD>"

CharOfCode(n) == IF n >= 32 /\ n <= 126 THEN Ascii[n - 31] ELSE ReplacementChar

\* urllib.parse.unquote: every %XX with two hex digits is decoded, anything
\* else is kept as it is.
RECURSIVE unquote(_)
unquote(s) ==
    IF s = <<>> THEN <<>>
    ELSE IF Head(s) = "%" /\ Len(s) >= 3 /\ IsHex(s[2]) /\ IsHex(s[3])
         THEN <<CharOfCode(16 * HexVal(s[2]) + HexVal(s[3]))>> \o unquote(SubSeq(s, 4, Len(s)))
         ELSE <<Head(s)>> \o unquote(Tail(s))

\* Characters urllib.parse.quote never encodes (its default safe='/').
QuoteSafe(c) ==
    \/ InSeq(c, UpperLetters) \/ InSeq(c, LowerLetters) \/ InSeq(c, Digits)
    \/ c \in {"_", ".", "-", "~", "/"}

QuoteChar(c) ==
    IF QuoteSafe(c) THEN <<c>>
    ELSE IF InSeq(c, Ascii)
         THEN LET n == IndexIn(c, Ascii) + 31
              IN  <<"%", HexUpper[(n \div 16) + 1], HexUpper[(n % 16) + 1]>>
         ELSE <<"%","E","F","%","B","F","%","B","D">>

\* urllib.parse.quote
RECURSIVE quote(_)
quote(s) == IF s = <<>> THEN <<>> ELSE QuoteChar(Head(s)) \o quote(Tail(s))

\* The longest prefix of s that holds none of the characters of stops.
RECURSIVE take_until(_, _)
take_until(s, stops) ==
    IF s = <<>> \/ Head(s) \in stops THEN <<>>
    ELSE <<Head(s)>> \o take_until(Tail(s), stops)

\* urlparse raises ValueError for a netloc with an unbalanced square bracket.
urlparse_raises(url) ==
    LET rest == SubSeq(url, Len(take_until(url, {":"})) + 4, Len(url))
        netloc == take_until(rest, {"/", "?", "#"})
    IN  InSeq("[", netloc) # InSeq("]", netloc)

\* The index of the last "/" of s, 0 when there is none.
LastSlash(s) == IF InSeq("/", s) THEN CHOOSE i \in 1..Len(s) : s[i] = "/" /\ \A j \in (i + 1)..Len(s) : s[j] # "/" ELSE 0

\* urlparse(url).path for a url that starts with http:// or https://: what
\* follows the netloc, without the fragment, the query and the parameters of
\* the last segment.
urlparse_path(url) ==
    LET rest == SubSeq(url, Len(take_until(url, {":"})) + 4, Len(url))
        netloc == take_until(rest, {"/", "?", "#"})
        after == SubSeq(rest, Len(netloc) + 1, Len(rest))
        nofrag == take_until(after, {"#"})
        noquery == take_until(nofrag, {"?"})
        k == LastSlash(noquery)
    IN  SubSeq(noquery, 1, k) \o take_until(SubSeq(noquery, k + 1, Len(noquery)), {";"})

\* '/' + '/'.join(path.split('/', 3)[3:]): what follows the third "/".
RECURSIVE after_slashes(_, _)
after_slashes(s, n) ==
    IF n = 0 THEN s
    ELSE IF s = <<>> THEN <<>>
    ELSE IF Head(s) = "/" THEN after_slashes(Tail(s), n - 1)
    ELSE after_slashes(Tail(s), n)

\* ------------------------------------------------------------------------
\* _normalize_wiki_path
\* ------------------------------------------------------------------------
\* _normalize_wiki_path without the upper-casing of the first character.
normalize_wiki_path_keep_case(ref) ==
    IF Falsy(ref) THEN None
    ELSE LET p1 == IF startswith(ref, S_https) \/ startswith(ref, S_http)
                   THEN IF urlparse_raises(ref) THEN <<"/">> \o after_slashes(ref, 3)
                        ELSE urlparse_path(ref)
                   ELSE ref
         IN  IF ~startswith(p1, S_wiki) THEN None
             ELSE LET page == SubSeq(p1, Len(S_wiki) + 1, Len(p1))
                  IN  IF page = <<>> THEN None
                      ELSE LET decoded == unquote(page)
                               spaced == strip(replace(decoded, <<"_">>, <<" ">>))
                           IN  S_wiki \o quote(replace(spaced, <<" ">>, <<"_">>))

normalize_wiki_path(ref) ==
    IF Falsy(ref) THEN None
    ELSE LET p1 == IF startswith(ref, S_https) \/ startswith(ref, S_http)
                   THEN IF urlparse_raises(ref) THEN <<"/">> \o after_slashes(ref, 3)
                        ELSE urlparse_path(ref)
                   ELSE ref
         IN  IF ~startswith(p1, S_wiki) THEN None
             ELSE LET page == SubSeq(p1, Len(S_wiki) + 1, Len(p1))
                  IN  IF page = <<>> THEN None
                      ELSE LET decoded == unquote(page)
                               spaced == strip(replace(decoded, <<"_">>, <<" ">>))
                               cased == IF spaced # <<>>
                                        THEN <<UpperChar(Head(spaced))>> \o Tail(spaced)
                                        ELSE spaced
                           IN  S_wiki \o quote(replace(cased, <<" ">>, <<"_">>))

\* ------------------------------------------------------------------------
\* Parsed documents (the BeautifulSoup tree, as far as the code reads it)
\*
\* A node is a piece of text, or an <a href=...> element with its text:
\*     [link : BOOLEAN, text : string, href : string]
\* An infobox row is its first <th> (None when it has none) and its first
\* <td> (hasTd, and the nodes of the cell):
\*     [th : string or None, hasTd : BOOLEAN, td : sequence of nodes]
\* A document is the text of its h1.firstHeading (None when it has none), the
\* rows of its first table.infobox (none when it has no infobox) and its <p>
\* elements, each a sequence of nodes:
\*     [h1 : string or None, infobox : sequence of rows, paras : sequence of
\*      sequences of nodes]
\* ------------------------------------------------------------------------
TextNode(t) == [link |-> FALSE, text |-> t, href |-> <<>>]

LinkNode(t, h) == [link |-> TRUE, text |-> t, href |-> h]

\* element.text / element.get_text(): the texts of the nodes, concatenated.
NodesText(nodes) == concat([i \in 1..Len(nodes) |-> nodes[i].text])

\* element.find_all("a", href=True), in document order.
RECURSIVE Links(_)
Links(nodes) ==
    IF nodes = <<>> THEN <<>>
    ELSE (IF Head(nodes).link THEN <<Head(nodes)>> ELSE <<>>) \o Links(Tail(nodes))

\* The nodes of the whole document in document order: infobox cells, then
\* paragraphs.
AllNodes(soup) ==
    concat([i \in 1..Len(soup.infobox) |->
               IF soup.infobox[i].hasTd THEN soup.infobox[i].td ELSE <<>>])
    \o concat(soup.paras)

\* soup.find_all("a", href=True)
AllLinks(soup) == Links(AllNodes(soup))

\* soup.get_text(): heading, infobox headers and cells, paragraphs.
SoupText(soup) ==
    (IF soup.h1 = None THEN <<>> ELSE soup.h1)
    \o concat([i \in 1..Len(soup.infobox) |->
                  (IF soup.infobox[i].th = None THEN <<>> ELSE soup.infobox[i].th)
                  \o (IF soup.infobox[i].hasTd THEN NodesText(soup.infobox[i].td) ELSE <<>>)])
    \o concat([i \in 1..Len(soup.paras) |-> NodesText(soup.paras[i])])

\* The rows of the infobox that have a header whose lower-cased text holds
\* one of the keywords, and that have a cell.
RowsLabelled(soup, keywords, stripped) ==
    LET row(i) == soup.infobox[i]
        label(i) == IF stripped THEN strip(lower(row(i).th)) ELSE lower(row(i).th)
    IN  { i \in 1..Len(soup.infobox) :
            /\ row(i).th # None
            /\ \E k \in 1..Len(keywords) : contains(label(i), keywords[k])
            /\ row(i).hasTd }

\* The sequence of the values f[i] for the i of the set of indices I, by
\* increasing i.
RECURSIVE InOrder(_, _, _)
InOrder(f, I, from) ==
    IF \A i \in I : i < from THEN <<>>
    ELSE (IF from \in I THEN <<f[from]>> ELSE <<>>) \o InOrder(f, I, from + 1)

\* ------------------------------------------------------------------------
\* extract_all_websites_from_infobox
\* ------------------------------------------------------------------------
website_keywords == << <<"w","e","b","s","i","t","e">>, <<"u","r","l">>,
                       <<"h","o","m","e","p","a","g","e">>, <<"s","i","t","e">>,
                       <<"w","e","b">> >>

\* A character of the class [^\s<>"].
UrlChar(c) == ~IsSpace(c) /\ c \notin {"<", ">", DQuote}

RECURSIVE url_run(_)
url_run(s) == IF s = <<>> \/ ~UrlChar(Head(s)) THEN <<>> ELSE <<Head(s)>> \o url_run(Tail(s))

\* The match of  https?://[^\s<>"]+|www\.[^\s<>"]+  at the start of s, the
\* empty string when there is none.
url_match(s) ==
    LET head == IF startswith(s, S_https) THEN S_https
                ELSE IF startswith(s, S_http) THEN S_http
                ELSE <<>>
        run1 == url_run(SubSeq(s, Len(head) + 1, Len(s)))
        run2 == url_run(SubSeq(s, Len(S_www) + 1, Len(s)))
    IN  IF head # <<>> /\ run1 # <<>> THEN head \o run1
        ELSE IF startswith(s, S_www) /\ run2 # <<>> THEN S_www \o run2
        ELSE <<>>

\* re.findall(url_pattern, cell_text)
RECURSIVE findall_urls(_)
findall_urls(s) ==
    IF s = <<>> THEN <<>>
    ELSE LET m == url_match(s)
         IN  IF m # <<>> THEN <<m>> \o findall_urls(SubSeq(s, Len(m) + 1, Len(s)))
             ELSE findall_urls(Tail(s))

\* What one website row contributes: the http hrefs of its links, then the
\* URLs found in its text.
row_websites(cell) ==
    LET links == Links(cell)
        hrefs == [i \in 1..Len(links) |-> links[i].href]
        http == <<"h","t","t","p">>
        urls == findall_urls(NodesText(cell))
    IN  concat([i \in 1..Len(hrefs) |-> IF startswith(hrefs[i], http) THEN <<hrefs[i]>> ELSE <<>>])
        \o [i \in 1..Len(urls) |-> IF startswith(urls[i], http) THEN urls[i] ELSE S_http \o urls[i]]

extract_all_websites_from_infobox(soup) ==
    LET rows == RowsLabelled(soup, website_keywords, TRUE)
        per == [i \in 1..Len(soup.infobox) |-> row_websites(soup.infobox[i].td)]
    IN  concat(InOrder(per, rows, 1))

\* ------------------------------------------------------------------------
\* verify_wikipedia_page_match
\* ------------------------------------------------------------------------
MinLabelLen == 3

\* verify_wikipedia_page_match without the test of the page text in the last
\* tier: the title alone decides.
verify_title_only(soup, target_website) ==
    LET target_domain == normalize_domain(target_website)
        wiki_websites == extract_all_websites_from_infobox(soup)
        wiki_domain(i) == normalize_domain(wiki_websites[i])
        dot == <<".">>
        company_name_from_domain == split_first(target_domain, ".")
    IN  IF Falsy(target_domain) THEN FALSE
        ELSE IF \E i \in 1..Len(wiki_websites) : wiki_domain(i) = target_domain THEN TRUE
        ELSE IF \E i \in 1..Len(wiki_websites) :
                    /\ ~Falsy(wiki_domain(i))
                    /\ \/ endswith(wiki_domain(i), dot \o target_domain)
                       \/ endswith(target_domain, dot \o wiki_domain(i))
             THEN TRUE
        ELSE /\ soup.h1 # None
             /\ Len(company_name_from_domain) > MinLabelLen
             /\ contains(lower(soup.h1), company_name_from_domain)

verify_wikipedia_page_match(soup, target_website) ==
    LET target_domain == normalize_domain(target_website)
        wiki_websites == extract_all_websites_from_infobox(soup)
        wiki_domain(i) == normalize_domain(wiki_websites[i])
        dot == <<".">>
        company_name_from_domain == split_first(target_domain, ".")
    IN  IF Falsy(target_domain) THEN FALSE
        ELSE IF \E i \in 1..Len(wiki_websites) : wiki_domain(i) = target_domain THEN TRUE
        ELSE IF \E i \in 1..Len(wiki_websites) :
                    /\ ~Falsy(wiki_domain(i))
                    /\ \/ endswith(wiki_domain(i), dot \o target_domain)
                       \/ endswith(target_domain, dot \o wiki_domain(i))
             THEN TRUE
        ELSE /\ soup.h1 # None
             /\ Len(company_name_from_domain) > MinLabelLen
             /\ contains(lower(soup.h1), company_name_from_domain)
             /\ contains(lower(SoupText(soup)), target_domain)

\* ------------------------------------------------------------------------
\* The completion service and the relationship extractors
\*
\* An entity is [name : string, wiki_url : string or None].
\* The outcome of one extraction's use of the completion service is
\*     [called : BOOLEAN, ok : BOOLEAN, content : string]
\* not called, or called and failed (an exception), or called and answered
\* with content.  The prompt is not modelled: the answer is arbitrary.
\* ------------------------------------------------------------------------
NoCall == [called |-> FALSE, ok |-> FALSE, content |-> <<>>]

CallFailed == [called |-> TRUE, ok |-> FALSE, content |-> <<>>]

CallAnswered(c) == [called |-> TRUE, ok |-> TRUE, content |-> c]

S_wikipedia_org == S_https \o <<"e","n",".","w","i","k","i","p","e","d","i","a",".","o","r","g">>

\* The "none" placeholders as the source file spells them: its first entry is
\* the three characters U+00E2 U+20AC U+201D, not the em dash U+2014.
none_placeholders == { <<"<U+00E2>", "<U+20AC>", "<U+201D>">>, <<"-">>,
                       <<"N","o","n","e">>, <<"N","/","A">> }

Names(entities) == [i \in 1..Len(entities) |-> entities[i].name]

\* [n.strip() for n in names.split(',') if n.strip()]
comma_items(names) ==
    LET parts == split(names, ",")
    IN  concat([i \in 1..Len(parts) |-> IF strip(parts[i]) # <<>> THEN <<strip(parts[i])>> ELSE <<>>])

\* [p.text.strip() for p in soup.find_all("p") if p.text.strip()] is not empty.
has_paragraphs(soup) == \E i \in 1..Len(soup.paras) : strip(NodesText(soup.paras[i])) # <<>>

\* The first link of the page whose href starts with /wiki/ and whose trimmed
\* lower-cased text is the lower-cased name: its absolute URL, else None.
find_wiki_link(soup, name) ==
    LET links == AllLinks(soup)
        hit(i) == /\ startswith(links[i].href, S_wiki)
                  /\ lower(strip(links[i].text)) = lower(name)
    IN  IF \E i \in 1..Len(links) : hit(i)
        THEN S_wikipedia_org \o links[CHOOSE i \in 1..Len(links) : hit(i) /\ \A j \in 1..(i - 1) : ~hit(j)].href
        ELSE None

\* The structured phase for one cell of a relation row.
cell_entities(cell, need_name, placeholders) ==
    LET links == Links(cell)
        text == strip(NodesText(cell))
    IN  concat([i \in 1..Len(links) |->
                   IF /\ startswith(links[i].href, S_wiki)
                      /\ (need_name => strip(links[i].text) # <<>>)
                   THEN <<[name |-> strip(links[i].text),
                           wiki_url |-> S_wikipedia_org \o links[i].href]>>
                   ELSE <<>>])
        \o (IF links = <<>> /\ text # <<>> /\ text \notin placeholders
            THEN <<[name |-> text, wiki_url |-> None]>>
            ELSE <<>>)

\* The structured phase of extract_subsidiaries (lines 51-68).
subsidiaries_structured(soup) ==
    LET rows == RowsLabelled(soup, << <<"s","u","b","s","i","d","i","a","r">> >>, FALSE)
        per == [i \in 1..Len(soup.infobox) |-> cell_entities(soup.infobox[i].td, TRUE, none_placeholders)]
    IN  concat(InOrder(per, rows, 1))

\* The structured phase of extract_acquisitions (lines 146-163).
acquisitions_structured(soup) ==
    LET rows == RowsLabelled(soup, << <<"a","c","q","u","i","s","i","t">> >>, FALSE)
        per == [i \in 1..Len(soup.infobox) |-> cell_entities(soup.infobox[i].td, FALSE, {})]
    IN  concat(InOrder(per, rows, 1))

\* extract_subsidiaries_from_text and extract_acquisitions_from_description:
\* whether the completion service is called, and the names returned.
text_call_made(soup) == has_paragraphs(soup)

names_from_text(soup, ai) ==
    IF ~has_paragraphs(soup) THEN <<>>
    ELSE IF ~ai.ok THEN <<>>
    ELSE comma_items(strip(ai.content))

\* Whether extract_subsidiaries / extract_acquisitions call the service.
subsidiaries_call_made(soup, company_name) ==
    ~Falsy(company_name) /\ text_call_made(soup)

\* The call made whatever the structured phase yielded, as for subsidiaries.
acquisitions_call_always(soup, company_name) ==
    ~Falsy(company_name) /\ text_call_made(soup)

acquisitions_call_made(soup, company_name) ==
    acquisitions_structured(soup) = <<>> /\ ~Falsy(company_name) /\ text_call_made(soup)

MinNameLen == 2

\* The final loop of extract_subsidiaries: the first entity of each
\* lower-cased name, names of more than 2 characters only.
RECURSIVE unique_entities(_, _)
unique_entities(entities, seen_names) ==
    IF entities = <<>> THEN <<>>
    ELSE LET sub == Head(entities)
             name_lower == lower(sub.name)
         IN  IF name_lower \notin seen_names /\ Len(sub.name) > MinNameLen
             THEN <<sub>> \o unique_entities(Tail(entities), seen_names \cup {name_lower})
             ELSE unique_entities(Tail(entities), seen_names)

extract_subsidiaries(soup, company_name, ai) ==
    LET structured == subsidiaries_structured(soup)
        ai_subsidiaries == IF Falsy(company_name) THEN <<>> ELSE names_from_text(soup, ai)
        existing_names == { lower(structured[i].name) : i \in 1..Len(structured) }
        found == concat([i \in 1..Len(ai_subsidiaries) |->
                    IF /\ lower(ai_subsidiaries[i]) \notin existing_names
                       /\ Len(ai_subsidiaries[i]) > MinNameLen
                    THEN <<[name |-> ai_subsidiaries[i],
                            wiki_url |-> find_wiki_link(soup, ai_subsidiaries[i])]>>
                    ELSE <<>>])
    IN  unique_entities(structured \o found, {})

extract_acquisitions(soup, company_name, ai) ==
    LET structured == acquisitions_structured(soup)
        ai_names == names_from_text(soup, ai)
    IN  IF structured = <<>> /\ ~Falsy(company_name)
        THEN [i \in 1..Len(ai_names) |->
                 [name |-> ai_names[i], wiki_url |-> find_wiki_link(soup, ai_names[i])]]
        ELSE structured

\* ------------------------------------------------------------------------
\* get_official_website_from_infobox and get_linked_entities_with_domains
\*
\* The outcome of the fetch of a child document is
\*     [fetched : BOOLEAN, ok : BOOLEAN, soup : document]
\* no request made, or a request that failed, or the parsed document.
\* ------------------------------------------------------------------------
EmptySoup == [h1 |-> None, infobox |-> <<>>, paras |-> <<>>]

NoFetch == [fetched |-> FALSE, ok |-> FALSE, soup |-> EmptySoup]

FetchFailed == [fetched |-> TRUE, ok |-> FALSE, soup |-> EmptySoup]

Fetched(d) == [fetched |-> TRUE, ok |-> TRUE, soup |-> d]

\* The href of the first link of the first "website" row whose cell's first
\* link has an href that starts with http; None when there is no such row.
get_official_website_from_infobox(soup) ==
    LET rows == RowsLabelled(soup, << <<"w","e","b","s","i","t","e">> >>, FALSE)
        first(i) == Links(soup.infobox[i].td)[1]
        good == { i \in rows : /\ Links(soup.infobox[i].td) # <<>>
                               /\ startswith(first(i).href, <<"h","t","t","p">>) }
    IN  IF good = {} THEN None
        ELSE first(CHOOSE i \in good : \A j \in good : i <= j).href

\* link_map[text]: the hrefs of the links of the page whose trimmed,
\* lower-cased text is text, for a non-empty text.
link_map_hrefs(soup, text) ==
    LET links == AllLinks(soup)
    IN  IF text = <<>> THEN <<>>
        ELSE concat([i \in 1..Len(links) |->
                        IF lower(strip(links[i].text)) = text THEN <<links[i].href>> ELSE <<>>])

\* The gate with the test of the anchor text left out: any link of the page
\* to the entity's document passes.
found_link_any_text(soup, entity) ==
    LET links == AllLinks(soup)
        entity_url_path == normalize_wiki_path(entity.wiki_url)
    IN  /\ ~Falsy(entity.wiki_url)
        /\ entity_url_path # None
        /\ \E i \in 1..Len(links) :
              /\ normalize_wiki_path(links[i].href) # None
              /\ normalize_wiki_path(links[i].href) = entity_url_path

\* found_link: the entity has a wiki_url, and the page links the entity's
\* name to that document.
found_link(soup, entity) ==
    LET entity_name_lc == lower(strip(entity.name))
        entity_url_path == normalize_wiki_path(entity.wiki_url)
        hrefs == link_map_hrefs(soup, entity_name_lc)
    IN  /\ ~Falsy(entity.wiki_url)
        /\ hrefs # <<>>
        /\ entity_url_path # None
        /\ \E i \in 1..Len(hrefs) :
              /\ normalize_wiki_path(hrefs[i]) # None
              /\ normalize_wiki_path(hrefs[i]) = entity_url_path

\* The domain one entity gets, given the outcome of the fetch of its document.
entity_domain(soup, entity, child) ==
    IF ~found_link(soup, entity) THEN None
    ELSE IF ~child.ok THEN None
    ELSE LET website == get_official_website_from_infobox(child.soup)
         IN  IF Falsy(website) THEN None ELSE normalize_domain(website)

\* The loop with the try around all of it: the first failed fetch ends the
\* batch and what was resolved so far is returned.
RECURSIVE linked_entities_abort_on_failure(_, _, _)
linked_entities_abort_on_failure(soup, entity_list, children) ==
    IF entity_list = <<>> THEN <<>>
    ELSE IF found_link(soup, Head(entity_list)) /\ ~Head(children).ok THEN <<>>
    ELSE <<[name |-> Head(entity_list).name,
            wiki_url |-> Head(entity_list).wiki_url,
            domain |-> entity_domain(soup, Head(entity_list), Head(children))]>>
         \o linked_entities_abort_on_failure(soup, Tail(entity_list), Tail(children))

\* get_linked_entities_with_domains: children[i] is the outcome of the fetch
\* for entity i (read only when its link was found).
get_linked_entities_with_domains(soup, entity_list, children) ==
    [i \in 1..Len(entity_list) |->
        [name |-> entity_list[i].name,
         wiki_url |-> entity_list[i].wiki_url,
         domain |-> entity_domain(soup, entity_list[i], children[i])]]

\* ------------------------------------------------------------------------
\* target(): the keyword guess, the search, and the acquisition lookup
\*
\* The outcome of a keyword guess is [ok : BOOLEAN, content : string]: the
\* completion service failed, or answered with content.  The outcome of a
\* search is [ok : BOOLEAN, titles : sequence of strings]: the request failed,
\* or returned the titles, best first.
\* ------------------------------------------------------------------------
GuessFailed == [ok |-> FALSE, content |-> <<>>]

Guessed(c) == [ok |-> TRUE, content |-> c]

SearchFailed == [ok |-> FALSE, titles |-> <<>>]

Found(ts) == [ok |-> TRUE, titles |-> ts]

\* guess_wikipedia_search_keywords, for an answer of the completion service.
guess_wikipedia_search_keywords(content) == comma_items(strip(content))

\* get_wikipedia_page_url
get_wikipedia_page_url(title) ==
    S_wikipedia_org \o S_wiki \o quote(replace(title, <<" ">>, <<"_">>))

\* titles[:8]
MaxTitles == 8

\* The loop over every title returned, without the cap.
top_titles_all(titles) == titles

top_titles(titles) == SubSeq(titles, 1, IF Len(titles) < MaxTitles THEN Len(titles) ELSE MaxTitles)

\* The longest prefix of s without whitespace.
RECURSIVE word_run(_)
word_run(s) == IF s = <<>> \/ IsSpace(Head(s)) THEN <<>> ELSE <<Head(s)>> \o word_run(Tail(s))

\* str.split(): the words of s, cut at runs of whitespace.
RECURSIVE split_ws(_)
split_ws(s) ==
    IF s = <<>> THEN <<>>
    ELSE IF IsSpace(Head(s)) THEN split_ws(Tail(s))
    ELSE <<word_run(s)>> \o split_ws(SubSeq(s, Len(word_run(s)) + 1, Len(s)))

MinWordLen == 2

\* The lookup without the relevance screen: any title names any entity.
title_names_any(title, name) == TRUE

\* any(word in candidate_title for word in entity_name.split() if len(word) > 2)
title_names_entity(title, name) ==
    LET words == split_ws(lower(name))
    IN  \E i \in 1..Len(words) : Len(words[i]) > MinWordLen /\ contains(lower(title), words[i])

\* The loop over acq_keywords (lines 450-466): searches[i] is the outcome of
\* the search for keyword i.  The result is [raised, url, searched]: whether a
\* search failed before a URL was found, the URL assigned (None when none
\* was), and the number of searches made.
RECURSIVE lookup_loop(_, _, _, _, _)
lookup_loop(name, url, searches, i, n) ==
    IF i > n THEN [raised |-> FALSE, url |-> None, searched |-> n]
    ELSE IF ~searches[i].ok THEN [raised |-> TRUE, url |-> None, searched |-> i]
    ELSE LET acq_titles == searches[i].titles
             candidate_url == get_wikipedia_page_url(acq_titles[1])
         IN  IF /\ acq_titles # <<>>
                /\ candidate_url # url
                /\ title_names_entity(acq_titles[1], name)
             THEN [raised |-> FALSE, url |-> candidate_url, searched |-> i]
             ELSE lookup_loop(name, url, searches, i + 1, n)

\* Whether target() looks an acquisition up (line 446).
needs_lookup(acq) == Falsy(acq.wiki_url) /\ acq.name # <<>>

\* The wiki_url of an acquisition after the lookup of lines 446-468.
lookup_acquisition(acq, url, guess, searches) ==
    IF ~needs_lookup(acq) THEN acq.wiki_url
    ELSE IF ~guess.ok THEN acq.wiki_url
    ELSE LET acq_keywords == guess_wikipedia_search_keywords(guess.content)
             found == lookup_loop(acq.name, url, searches, 1, Len(acq_keywords))
         IN  IF found.url # None THEN found.url ELSE acq.wiki_url

\* The orchestrator without the matcher: the first candidate fetched is taken.
candidate_accepted_any(soup, company_website) == TRUE

\* Whether a fetched candidate document is accepted (line 438).
candidate_accepted(soup, company_website) == verify_wikipedia_page_match(soup, company_website)

\* The record target() returns (lines 474-489).
build_result(main_domain, url, subsidiaries_with_domains, acquisitions_with_domains) ==
    [main_domain |-> main_domain,
     wikipedia_url |-> url,
     subsidiaries |-> [i \in 1..Len(subsidiaries_with_domains) |->
                          [name |-> subsidiaries_with_domains[i].name,
                           domain |-> subsidiaries_with_domains[i].domain,
                           relation |-> <<"s","u","b","s","i","d","i","a","r","y"," ","o","f"," ">>
                                        \o (IF main_domain = None THEN <<"N","o","n","e">> ELSE main_domain),
                           wiki_url |-> subsidiaries_with_domains[i].wiki_url]],
     acquisitions |-> [i \in 1..Len(acquisitions_with_domains) |->
                          [name |-> acquisitions_with_domains[i].name,
                           domain |-> acquisitions_with_domains[i].domain,
                           wiki_url |-> acquisitions_with_domains[i].wiki_url]]]

\* ------------------------------------------------------------------------
\* Inputs of the pure string functions: concatenations of a few tokens
\* ------------------------------------------------------------------------
MaxNormTokens == 3

NormTokens == << S_https, S_http, S_www, <<"W","W","W",".">>,
                 <<"H","T","T","P","S",":","/","/">>, <<" ">>,
                 <<"a","c","m","e">>, <<"A","c","m","e">>, <<".","c","o","m">>,
                 <<"/","a","b","o","u","t">>, <<":","8","0","8","0">>,
                 <<"#","t","o","p">> >>

\* Every concatenation of at most n of the tokens.
TokenStrings(tokens, n) ==
    UNION { { concat([i \in 1..k |-> tokens[f[i]]]) : f \in [1..k -> 1..Len(tokens)] } :
            k \in 0..n }

\* ------------------------------------------------------------------------
\* SpecNorm: normalize_domain applied to an input, then to its own result
\* ------------------------------------------------------------------------
InitNorm ==
    /\ \E x \in TokenStrings(NormTokens, MaxNormTokens) :
            norm = [pc |-> "input", in |-> x, out |-> <<>>, out2 |-> <<>>]
    /\ path = Idle /\ match = Idle /\ extr = Idle /\ reso = Idle /\ run = Idle

NormApply ==
    /\ norm.pc = "input"
    /\ norm' = [norm EXCEPT !.pc = "once", !.out = normalize_domain(norm.in)]
    /\ UNCHANGED <<path, match, extr, reso, run>>

NormReapply ==
    /\ norm.pc = "once"
    /\ norm' = [norm EXCEPT !.pc = "twice", !.out2 = normalize_domain(norm.out)]
    /\ UNCHANGED <<path, match, extr, reso, run>>

NextNorm == NormApply \/ NormReapply

SpecNorm == InitNorm /\ [][NextNorm]_vars

\* C6: normalize_domain is idempotent: applied to its own result it returns
\* that result, for every input string.
C6_Idempotent == norm.pc = "twice" => norm.out2 = norm.out

\* ------------------------------------------------------------------------
\* SpecPath: _normalize_wiki_path applied to two links to one document
\* ------------------------------------------------------------------------
MaxPathTokens == 3

\* The pieces a link's page name is written with: the text as it stands in the
\* link, and the piece of the document title it stands for (percent-decoded,
\* "_" read as a space).
PathTokens == <<
    [text |-> <<"A","c","m","e">>,         means |-> <<"A","c","m","e">>],
    [text |-> <<"a","c","m","e">>,         means |-> <<"a","c","m","e">>],
    [text |-> <<"%","4","1","c","m","e">>, means |-> <<"A","c","m","e">>],
    [text |-> <<"_">>,                     means |-> <<" ">>],
    [text |-> <<"%","2","0">>,             means |-> <<" ">>],
    [text |-> <<"C","o","r","p">>,         means |-> <<"C","o","r","p">>],
    [text |-> <<"c","o","r","p">>,         means |-> <<"c","o","r","p">> ] >>

\* A link is written relative to the site, or in full.
PathPrefixes == << <<>>, S_https \o <<"r","e","f",".","e","x","a","m","p","l","e">> >>

\* The tokens that stand for the same piece of title as t, ignoring case.
SameIgnoringCase(t) ==
    { u \in 1..Len(PathTokens) : lower(PathTokens[u].means) = lower(PathTokens[t].means) }

\* The token sequences that spell, token by token, the title of ts ignoring case.
RECURSIVE Respellings(_)
Respellings(ts) ==
    IF ts = <<>> THEN {<<>>}
    ELSE { <<u>> \o r : u \in SameIgnoringCase(Head(ts)), r \in Respellings(Tail(ts)) }

LinkText(l) ==
    PathPrefixes[l.prefix] \o S_wiki \o concat([i \in 1..Len(l.toks) |-> PathTokens[l.toks[i]].text])

LinkTitle(l) == concat([i \in 1..Len(l.toks) |-> PathTokens[l.toks[i]].means])

InitPath ==
    /\ \E k \in 1..MaxPathTokens, pb \in 1..Len(PathPrefixes) : \E pa \in 1..pb :
         \E ta \in [1..k -> 1..Len(PathTokens)] :
           \E tb \in Respellings(ta) :
             path = [pc |-> "input", a |-> [prefix |-> pa, toks |-> ta],
                     b |-> [prefix |-> pb, toks |-> tb], ra |-> None, rb |-> None]
    /\ norm = Idle /\ match = Idle /\ extr = Idle /\ reso = Idle /\ run = Idle

PathNormalizeA ==
    /\ path.pc = "input"
    /\ path' = [path EXCEPT !.pc = "one", !.ra = normalize_wiki_path(LinkText(path.a))]
    /\ UNCHANGED <<norm, match, extr, reso, run>>

PathNormalizeB ==
    /\ path.pc = "one"
    /\ path' = [path EXCEPT !.pc = "done", !.rb = normalize_wiki_path(LinkText(path.b))]
    /\ UNCHANGED <<norm, match, extr, reso, run>>

NextPath == PathNormalizeA \/ PathNormalizeB

SpecPath == InitPath /\ [][NextPath]_vars

\* The two links name titles that are equal but for the case of the first
\* character.
SameButLeadingCase(ta, tb) ==
    /\ Len(ta) = Len(tb)
    /\ ta # <<>>
    /\ LowerChar(ta[1]) = LowerChar(tb[1])
    /\ Tail(ta) = Tail(tb)

\* C8 (as stated): two links whose titles differ only by percent-encoding,
\* underscore/space substitution or the case of any character have the same
\* normalized path.
C8_AnyCaseSamePath == path.pc = "done" => path.ra = path.rb

\* C8 (amended): two links whose titles differ only by percent-encoding,
\* underscore/space substitution or the case of the FIRST character have the
\* same normalized path, and that path is not None.
C8_LeadingCaseSamePath ==
    (path.pc = "done" /\ SameButLeadingCase(LinkTitle(path.a), LinkTitle(path.b)))
        => (path.ra = path.rb /\ path.ra # None)

\* "/wiki/Acme_Corp" and "https://ref.example/wiki/acme%20Corp" were both
\* normalized, to the same path.
C8_Witness ==
    /\ path.pc = "done"
    /\ LinkText(path.a) = S_wiki \o <<"A","c","m","e","_","C","o","r","p">>
    /\ LinkText(path.b) = PathPrefixes[2] \o S_wiki \o <<"a","c","m","e","%","2","0","C","o","r","p">>
    /\ path.ra = path.rb
    /\ path.ra = S_wiki \o <<"A","c","m","e","_","C","o","r","p">>

\* ------------------------------------------------------------------------
\* SpecMatch: verify_wikipedia_page_match on a document and a target
\* ------------------------------------------------------------------------
MaxCellNodes == 2

S_acme_com == <<"a","c","m","e",".","c","o","m">>

MatchTargets == {
    S_https \o S_www \o S_acme_com \o <<"/","a","b","o","u","t">>,
    S_acme_com,
    <<"i","r",".">> \o S_acme_com,
    <<"a","c","m","e",".">>,
    <<"a","b","c",".","c","o","m">>,
    <<>> }

MatchTitles == { None, <<"A","c","m","e"," ","C","o","r","p">>,
                 <<"A","b","c"," ","I","n","c">>, <<"O","t","h","e","r">> }

MatchHeaders == { <<"W","e","b","s","i","t","e">>, <<"F","o","u","n","d","e","d">> }

MatchNodes == <<
    LinkNode(<<"s","i","t","e">>, S_https \o S_www \o S_acme_com \o <<"/">>),
    LinkNode(<<"I","R">>, S_http \o <<"i","r",".">> \o S_acme_com),
    LinkNode(<<"x">>, S_http),
    LinkNode(<<"o">>, S_https \o <<"o","t","h","e","r",".","o","r","g">>),
    TextNode(S_www \o S_acme_com),
    TextNode(<<" ">> \o S_acme_com) >>

MatchBodies == { <<>>, << <<TextNode(<<"s","e","e"," ">> \o S_acme_com)>> >>,
                 << <<TextNode(<<"A","c","m","e"," ","i","s"," ","b","i","g">>)>> >> }

\* The cells of at most n of the nodes.
Cells(nodes, n) == UNION { [1..k -> {nodes[i] : i \in 1..Len(nodes)}] : k \in 0..n }

MatchDocs ==
    { [h1 |-> t, infobox |-> ib, paras |-> b] :
        t \in MatchTitles,
        ib \in {<<>>} \cup { <<[th |-> h, hasTd |-> TRUE, td |-> c]>> :
                               h \in MatchHeaders, c \in Cells(MatchNodes, MaxCellNodes) },
        b \in MatchBodies }

InitMatch ==
    /\ \E d \in MatchDocs, w \in MatchTargets :
          match = [pc |-> "input", soup |-> d, target_website |-> w, result |-> FALSE]
    /\ norm = Idle /\ path = Idle /\ extr = Idle /\ reso = Idle /\ run = Idle

MatchVerify ==
    /\ match.pc = "input"
    /\ match' = [match EXCEPT !.pc = "done",
                   !.result = verify_wikipedia_page_match(match.soup, match.target_website)]
    /\ UNCHANGED <<norm, path, extr, reso, run>>

NextMatch == MatchVerify

SpecMatch == InitMatch /\ [][NextMatch]_vars

\* The three tiers of evidence, for a document and a normalized target T.
Tier1(soup, T) ==
    LET c == extract_all_websites_from_infobox(soup)
    IN  \E i \in 1..Len(c) : normalize_domain(c[i]) = T

Tier2AnyCandidate(soup, T) ==
    LET c == extract_all_websites_from_infobox(soup)
    IN  \E i \in 1..Len(c) :
           \/ endswith(normalize_domain(c[i]), <<".">> \o T)
           \/ endswith(T, <<".">> \o normalize_domain(c[i]))

Tier2(soup, T) ==
    LET c == extract_all_websites_from_infobox(soup)
    IN  \E i \in 1..Len(c) :
           /\ normalize_domain(c[i]) # <<>>
           /\ \/ endswith(normalize_domain(c[i]), <<".">> \o T)
              \/ endswith(T, <<".">> \o normalize_domain(c[i]))

Tier3(soup, T) ==
    LET label == split_first(T, ".")
    IN  /\ soup.h1 # None
        /\ contains(lower(soup.h1), label)
        /\ Len(label) > 3
        /\ contains(lower(SoupText(soup)), T)

MatchT == normalize_domain(match.target_website)

\* C5 (as stated): for a target with a non-empty normalized domain T, the
\* matcher answers true exactly when tier 1, tier 2 (for some normalized
\* candidate C, empty or not) or tier 3 holds.
C5_ExactlyTiers ==
    (match.pc = "done" /\ ~Falsy(MatchT))
        => (match.result <=> (\/ Tier1(match.soup, MatchT)
                              \/ Tier2AnyCandidate(match.soup, MatchT)
                              \/ Tier3(match.soup, MatchT)))

\* C5 (amended): for a target with a non-empty normalized domain T, the
\* matcher answers true exactly when tier 1, tier 2 for some NON-EMPTY
\* normalized candidate C, or tier 3 holds (the title and the document text
\* compared lower-cased); so a mention of T in the text alone, or the label
\* in the title alone, never matches.
C5_ExactlyTiersNonEmpty ==
    (match.pc = "done" /\ ~Falsy(MatchT))
        => (match.result <=> (\/ Tier1(match.soup, MatchT)
                              \/ Tier2(match.soup, MatchT)
                              \/ Tier3(match.soup, MatchT)))

\* A document was matched on tier 3 alone.
C5_Witness ==
    /\ match.pc = "done"
    /\ ~Falsy(MatchT)
    /\ match.result
    /\ ~Tier1(match.soup, MatchT)
    /\ ~Tier2(match.soup, MatchT)
    /\ Tier3(match.soup, MatchT)

\* ------------------------------------------------------------------------
\* SpecExtract: extract_subsidiaries, then extract_acquisitions, on a document
\* ------------------------------------------------------------------------
S_Acme_Labs == <<"A","c","m","e"," ","L","a","b","s">>

S_acme_labs == <<"a","c","m","e"," ","l","a","b","s">>

S_Beta_Co == <<"B","e","t","a"," ","C","o">>

S_Acme == <<"A","c","m","e">>

S_Subsidiaries == <<"S","u","b","s","i","d","i","a","r","i","e","s">>

S_Acquisitions == <<"A","c","q","u","i","s","i","t","i","o","n","s">>

\* The em dash, U+2014.
EmDash == "<U+2014>"

ExtractNodes == <<
    LinkNode(S_Acme_Labs, S_wiki \o <<"A","c","m","e","_","L","a","b","s">>),
    LinkNode(S_acme_labs, S_wiki \o <<"A","c","m","e","_","l","a","b","s">>),
    LinkNode(<<"A","L">>, S_wiki \o <<"A","L">>),
    LinkNode(<<"E","x","t">>, S_https \o <<"e","x","t",".","c","o","m">>),
    TextNode(<<" ","A","c","m","e"," ","T","o","y","s"," ">>),
    TextNode(<<"N","o","n","e">>),
    TextNode(<<" ", EmDash>>) >>

ExtractHeaders == { S_Subsidiaries, S_Acquisitions,
                    S_Subsidiaries \o <<" ","a","n","d"," ","a","c","q","u","i","s","i","t","i","o","n","s">> }

\* No paragraph, or one paragraph that links "Beta Co" to its document.
ExtractBodies == { <<>>,
                   << <<TextNode(<<"o","w","n","s"," ">>),
                        LinkNode(S_Beta_Co, S_wiki \o <<"B","e","t","a","_","C","o">>)>> >> }

ExtractDocs ==
    { [h1 |-> S_Acme, infobox |-> ib, paras |-> b] :
        ib \in {<<>>} \cup { <<[th |-> h, hasTd |-> TRUE, td |-> c]>> :
                               h \in ExtractHeaders, c \in Cells(ExtractNodes, MaxCellNodes) },
        b \in ExtractBodies }

\* What the completion service may do when it is called.
AiAnswers == { CallFailed,
               CallAnswered(<<>>),
               CallAnswered(S_Acme_Labs \o <<",", " ">> \o S_acme_labs),
               CallAnswered(<<" ">> \o S_Beta_Co \o <<",", ",", " ", "A", "L", " ">>) }

AiOutcomes(call_made) == IF call_made THEN AiAnswers ELSE {NoCall}

InitExtract ==
    /\ \E d \in ExtractDocs, n \in {S_Acme, <<>>} :
          extr = [pc |-> "subsidiaries", soup |-> d, company_name |-> n,
                  ai_subsidiaries |-> NoCall, ai_acquisitions |-> NoCall,
                  structured_subsidiaries |-> <<>>, structured_acquisitions |-> <<>>,
                  subsidiaries |-> <<>>, acquisitions |-> <<>>]
    /\ norm = Idle /\ path = Idle /\ match = Idle /\ reso = Idle /\ run = Idle

ExtractSubsidiaries ==
    /\ extr.pc = "subsidiaries"
    /\ \E ai \in AiOutcomes(subsidiaries_call_made(extr.soup, extr.company_name)) :
          extr' = [extr EXCEPT !.pc = "acquisitions", !.ai_subsidiaries = ai,
                     !.structured_subsidiaries = subsidiaries_structured(extr.soup),
                     !.subsidiaries = extract_subsidiaries(extr.soup, extr.company_name, ai)]
    /\ UNCHANGED <<norm, path, match, reso, run>>

ExtractAcquisitions ==
    /\ extr.pc = "acquisitions"
    /\ \E ai \in AiOutcomes(acquisitions_call_made(extr.soup, extr.company_name)) :
          extr' = [extr EXCEPT !.pc = "done", !.ai_acquisitions = ai,
                     !.structured_acquisitions = acquisitions_structured(extr.soup),
                     !.acquisitions = extract_acquisitions(extr.soup, extr.company_name, ai)]
    /\ UNCHANGED <<norm, path, match, reso, run>>

NextExtract == ExtractSubsidiaries \/ ExtractAcquisitions

SpecExtract == InitExtract /\ [][NextExtract]_vars

\* The entities the links of the relation rows name: one per link to a
\* reference document, in order.
FieldLinkEntities(soup, keyword) ==
    LET rows == RowsLabelled(soup, <<keyword>>, FALSE)
        links(i) == Links(soup.infobox[i].td)
        per == [i \in 1..Len(soup.infobox) |->
                  concat([j \in 1..Len(links(i)) |->
                     IF startswith(links(i)[j].href, S_wiki)
                     THEN <<[name |-> strip(links(i)[j].text),
                             wiki_url |-> S_wikipedia_org \o links(i)[j].href]>>
                     ELSE <<>>])]
    IN  concat(InOrder(per, rows, 1))

S_acquisit == <<"a","c","q","u","i","s","i","t">>

ExtractInferable == extr.company_name # <<>> /\ has_paragraphs(extr.soup)

\* C9 (as stated), for a named company and a document with a paragraph: for
\* either relation kind the completion service is called exactly when the
\* structured phase yielded nothing.
C9_CalledIffStructuredEmpty ==
    (extr.pc = "done" /\ ExtractInferable)
        => /\ extr.ai_subsidiaries.called <=> (subsidiaries_structured(extr.soup) = <<>>)
           /\ extr.ai_acquisitions.called <=> (acquisitions_structured(extr.soup) = <<>>)

\* C9 (amended): the completion service is called only for a named company
\* and a document with a non-empty paragraph.  For acquisitions it is then
\* called exactly when the structured phase yielded nothing: when the field
\* links names to reference documents the output is one entity per such link,
\* with its URL, and no call is made; when the call is made the entities are
\* the trimmed non-empty items of the answer (none when the call fails).  For
\* subsidiaries it is called whatever the structured phase yielded, and every
\* item of the answer longer than 2 characters is in the output.
C9_InferencePhase ==
    extr.pc = "done" =>
        LET links == FieldLinkEntities(extr.soup, S_acquisit)
            aiA == extr.ai_acquisitions
            aiS == extr.ai_subsidiaries
            items == comma_items(strip(aiS.content))
        IN  /\ aiA.called <=> (acquisitions_structured(extr.soup) = <<>> /\ ExtractInferable)
            /\ aiS.called <=> ExtractInferable
            /\ links # <<>> => (extr.acquisitions = links /\ ~aiA.called)
            /\ (aiA.called /\ aiA.ok) => Names(extr.acquisitions) = comma_items(strip(aiA.content))
            /\ (aiA.called /\ ~aiA.ok) => extr.acquisitions = <<>>
            /\ (aiS.called /\ aiS.ok) =>
                  \A i \in 1..Len(items) :
                     Len(items[i]) > 2 =>
                        \E j \in 1..Len(extr.subsidiaries) :
                           lower(extr.subsidiaries[j].name) = lower(items[i])

\* Both fields linked names to reference documents: the subsidiaries
\* extraction called the service all the same and added a new name from its
\* answer, the acquisitions extraction did not call it.
C9_Witness ==
    /\ extr.pc = "done"
    /\ subsidiaries_structured(extr.soup) # <<>>
    /\ FieldLinkEntities(extr.soup, S_acquisit) # <<>>
    /\ extr.ai_subsidiaries.called /\ extr.ai_subsidiaries.ok
    /\ Len(extr.subsidiaries) > Len(subsidiaries_structured(extr.soup))
    /\ ~extr.ai_acquisitions.called
    /\ extr.acquisitions = FieldLinkEntities(extr.soup, S_acquisit)

\* C13: in the structured phase, for both relation kinds, a relation field
\* without hyperlinks emits one entity, named by its trimmed text and without
\* URL, when that text is not empty and is none of the em dash, "-", "None",
\* "N/A"; and emits nothing when the text is empty or one of those.
StatedPlaceholders == { <<EmDash>>, <<"-">>, <<"N","o","n","e">>, <<"N","/","A">> }

S_subsidiar == <<"s","u","b","s","i","d","i","a","r">>

FieldWithoutLinks(soup, keyword) ==
    /\ RowsLabelled(soup, <<keyword>>, FALSE) # {}
    /\ \A i \in RowsLabelled(soup, <<keyword>>, FALSE) : Links(soup.infobox[i].td) = <<>>

TextEntities(soup, keyword) ==
    LET per == [i \in 1..Len(soup.infobox) |->
                  LET text == strip(NodesText(soup.infobox[i].td))
                  IN  IF text # <<>> /\ text \notin StatedPlaceholders
                      THEN <<[name |-> text, wiki_url |-> None]>>
                      ELSE <<>>]
    IN  concat(InOrder(per, RowsLabelled(soup, <<keyword>>, FALSE), 1))

C13_TextFieldEntities ==
    extr.pc = "done" =>
        /\ FieldWithoutLinks(extr.soup, S_subsidiar) =>
              extr.structured_subsidiaries = TextEntities(extr.soup, S_subsidiar)
        /\ FieldWithoutLinks(extr.soup, S_acquisit) =>
              extr.structured_acquisitions = TextEntities(extr.soup, S_acquisit)

\* ------------------------------------------------------------------------
\* SpecResolve: get_linked_entities_with_domains on a parent document and a
\* list of entities
\* ------------------------------------------------------------------------
MaxEntities == 2

S_wiki_Acme_Labs == S_wiki \o <<"A","c","m","e","_","L","a","b","s">>

S_wiki_Beta_Co == S_wiki \o <<"B","e","t","a","_","C","o">>

S_acmelabs_io == <<"a","c","m","e","l","a","b","s",".","i","o">>

S_Website == <<"W","e","b","s","i","t","e">>

\* The documents behind the entities' URLs: what a successful fetch returns.
ChildPage(url) ==
    IF url = S_wikipedia_org \o S_wiki_Acme_Labs
    THEN [h1 |-> S_Acme_Labs,
          infobox |-> <<[th |-> S_Website, hasTd |-> TRUE,
                         td |-> <<LinkNode(S_acmelabs_io, S_https \o S_www \o S_acmelabs_io \o <<"/">>)>>]>>,
          paras |-> <<>>]
    ELSE IF url = S_wikipedia_org \o S_wiki_Beta_Co
    THEN [h1 |-> S_Beta_Co,
          infobox |-> <<[th |-> S_Website, hasTd |-> TRUE,
                         td |-> <<LinkNode(<<"b">>, S_http \o <<"B","e","t","a",".","c","o",":","8","0","/","x">>)>>]>>,
          paras |-> <<>>]
    ELSE EmptySoup

\* What the fetch of a child document may do.
ChildOutcomes(url) == { FetchFailed, Fetched(ChildPage(url)) }

\* One outcome per entity: a fetch is made for the entities whose link was found.
ChildFetches(soup, entity_list) ==
    { c \in [1..Len(entity_list) -> {NoFetch, FetchFailed} \cup { Fetched(ChildPage(entity_list[i].wiki_url)) : i \in 1..Len(entity_list) }] :
        \A i \in 1..Len(entity_list) :
           c[i] \in (IF found_link(soup, entity_list[i])
                     THEN ChildOutcomes(entity_list[i].wiki_url) ELSE {NoFetch}) }

ResolveNodes == <<
    LinkNode(S_Acme_Labs, S_wiki_Acme_Labs),
    LinkNode(<<" ","A","C","M","E"," ","l","a","b","s">>, S_wiki \o <<"a","c","m","e","%","2","0","L","a","b","s">>),
    LinkNode(<<"O","t","h","e","r">>, S_wiki_Beta_Co),
    LinkNode(S_Beta_Co, S_wiki_Beta_Co) >>

ResolveParents ==
    { [h1 |-> S_Acme, infobox |-> <<>>, paras |-> <<c>>] : c \in Cells(ResolveNodes, MaxCellNodes) }

ResolveEntities ==
    { [name |-> n, wiki_url |-> u] :
        n \in { S_acme_labs \o <<" ">>, S_Beta_Co },
        u \in { None, S_wikipedia_org \o S_wiki_Acme_Labs, S_wikipedia_org \o S_wiki_Beta_Co } }

InitResolve ==
    /\ \E d \in ResolveParents, k \in 0..MaxEntities :
         \E es \in [1..k -> ResolveEntities] :
            reso = [pc |-> "input", soup |-> d, entity_list |-> es,
                    children |-> <<>>, result |-> <<>>]
    /\ norm = Idle /\ path = Idle /\ match = Idle /\ extr = Idle /\ run = Idle

Resolve ==
    /\ reso.pc = "input"
    /\ \E c \in ChildFetches(reso.soup, reso.entity_list) :
          reso' = [reso EXCEPT !.pc = "done", !.children = c,
                     !.result = get_linked_entities_with_domains(reso.soup, reso.entity_list, c)]
    /\ UNCHANGED <<norm, path, match, extr, run>>

NextResolve == Resolve

SpecResolve == InitResolve /\ [][NextResolve]_vars

\* The parent links the name (trimmed, lower-cased) to the document of url.
LinkedByName(soup, name, url) ==
    \E i \in 1..Len(AllLinks(soup)) :
       /\ lower(strip(AllLinks(soup)[i].text)) = lower(strip(name))
       /\ normalize_wiki_path(AllLinks(soup)[i].href) = normalize_wiki_path(url)

IsAnchorText(soup, name) ==
    \E i \in 1..Len(AllLinks(soup)) : lower(strip(AllLinks(soup)[i].text)) = lower(strip(name))

\* C1: an output entity has a domain only if it has a candidate_ref_url and
\* the parent links its name to the document of that URL; an entity whose
\* name is the anchor text of no link of the parent has no domain.
C1_DomainOnlyIfLinked ==
    \A i \in 1..Len(reso.result) :
       LET e == reso.result[i]
       IN  /\ e.domain # None =>
                 (e.wiki_url # None /\ LinkedByName(reso.soup, e.name, e.wiki_url))
           /\ ~IsAnchorText(reso.soup, e.name) => e.domain = None

\* One entity got a domain, and another, with a URL but a name the parent
\* links nowhere, got none.
C1_Witness ==
    /\ reso.pc = "done"
    /\ \E i, j \in 1..Len(reso.result) :
          /\ reso.result[i].domain # None
          /\ reso.result[j].wiki_url # None
          /\ ~IsAnchorText(reso.soup, reso.result[j].name)
          /\ reso.result[j].domain = None

\* The domain an entity gets when the fetch of its document does not fail.
DomainIfFetched(soup, entity) ==
    IF entity.wiki_url # None /\ LinkedByName(soup, entity.name, entity.wiki_url)
    THEN LET website == get_official_website_from_infobox(ChildPage(entity.wiki_url))
         IN  IF website = None THEN None ELSE normalize_domain(website)
    ELSE None

\* C10: a failed child fetch leaves its own entity without a domain and
\* nothing else changes: one record per input entity, in input order, name
\* and candidate_ref_url unchanged, and every entity whose fetch did not fail
\* has the domain it has when no fetch fails.
C10_FailureIsolated ==
    reso.pc = "done" =>
        /\ Len(reso.result) = Len(reso.entity_list)
        /\ \A i \in 1..Len(reso.result) :
              /\ reso.result[i].name = reso.entity_list[i].name
              /\ reso.result[i].wiki_url = reso.entity_list[i].wiki_url
              /\ reso.children[i] = FetchFailed => reso.result[i].domain = None
              /\ reso.children[i] # FetchFailed =>
                    reso.result[i].domain = DomainIfFetched(reso.soup, reso.entity_list[i])

\* The fetch for the first entity failed and the second entity got its domain.
C10_Witness ==
    /\ reso.pc = "done"
    /\ Len(reso.result) >= 2
    /\ reso.children[1] = FetchFailed
    /\ reso.result[1].domain = None
    /\ reso.result[2].domain # None

\* ------------------------------------------------------------------------
\* Spec: one run of target(company_website), a step per use of a collaborator
\* ------------------------------------------------------------------------
S_Acme_Corp == <<"A","c","m","e"," ","C","o","r","p">>

S_Acme_band == <<"A","c","m","e"," ","(","b","a","n","d",")">>

S_Gamma_Inc == <<"G","a","m","m","a"," ","I","n","c">>

RunWebsites == { S_https \o S_www \o S_acme_com \o <<"/","a","b","o","u","t">>,
                 <<"W","W","W",".">> \o S_acme_com }

WebsiteRow == [th |-> S_Website, hasTd |-> TRUE,
               td |-> <<LinkNode(S_acme_com, S_https \o S_www \o S_acme_com \o <<"/">>)>>]

\* The document of the company, in three editions: relations linked in the
\* infobox; no relation rows, a paragraph that links a subsidiary; an
\* acquisition named in plain text.
CompanyDocs == {
    [h1 |-> S_Acme_Corp,
     infobox |-> <<WebsiteRow,
                   [th |-> S_Subsidiaries, hasTd |-> TRUE,
                    td |-> <<LinkNode(S_Acme_Labs, S_wiki_Acme_Labs), TextNode(<<",", " ">>),
                             LinkNode(<<"A","L">>, S_wiki \o <<"A","L">>)>>],
                   [th |-> S_Acquisitions, hasTd |-> TRUE,
                    td |-> <<LinkNode(S_Beta_Co, S_wiki_Beta_Co), TextNode(<<",", " ">>),
                             LinkNode(<<"B","E","T","A"," ","C","O">>, S_wiki_Beta_Co)>>]>>,
     paras |-> << <<TextNode(S_Acme_Corp \o <<" ","m","a","k","e","s"," ","a","n","v","i","l","s">>)>> >>],
    [h1 |-> S_Acme_Corp,
     infobox |-> <<WebsiteRow>>,
     paras |-> << <<TextNode(<<"o","w","n","s"," ">>), LinkNode(S_Acme_Labs, S_wiki_Acme_Labs)>> >>],
    [h1 |-> S_Acme_Corp,
     infobox |-> <<WebsiteRow,
                   [th |-> S_Acquisitions, hasTd |-> TRUE, td |-> <<TextNode(S_Gamma_Inc)>>]>>,
     paras |-> <<>>] }

BandDoc == [h1 |-> S_Acme_band, infobox |-> <<>>,
            paras |-> << <<TextNode(<<"a"," ","b","a","n","d">>)>> >>]

\* The documents of the reference site: what a successful fetch of url returns.
Page(company_doc, url) ==
    IF url = get_wikipedia_page_url(S_Acme_Corp) THEN company_doc
    ELSE IF url = get_wikipedia_page_url(S_Acme_band) THEN BandDoc
    ELSE ChildPage(url)

\* What the collaborators may answer.
GuessOutcomes == { GuessFailed, Guessed(<<>>), Guessed(S_Acme),
                   Guessed(S_Acme \o <<",", " ">> \o S_Acme_Corp) }

SearchOutcomes == { SearchFailed, Found(<<>>), Found(<<S_Acme_Corp>>),
                    Found(<<S_Acme_band, S_Acme_Corp>>) }

\* A search that returns more titles than the orchestrator looks at: eight
\* titles of other documents, and the company's as the ninth.
LongTitles == [i \in 1..9 |-> IF i = 9 THEN S_Acme_Corp
                               ELSE S_Acme \o <<" ", <<"1","2","3","4","5","6","7","8">>[i]>>]

\* The catalogs a run may meet.  In the "long" one the keyword guess answers
\* two keywords, the search for the first returns LongTitles and the search
\* for the second returns no title or the title of another document.
Catalogs == {"short", "long"}

GuessOutcomesIn(catalog) ==
    IF catalog = "long" THEN { GuessFailed, Guessed(S_Acme \o <<",", " ">> \o S_Acme_Corp) }
    ELSE GuessOutcomes

SearchOutcomesIn(catalog, k) ==
    IF catalog = "long"
    THEN (IF k = 1 THEN { SearchFailed, Found(LongTitles) }
          ELSE { SearchFailed, Found(<<>>), Found(<<S_Acme_band>>) })
    ELSE SearchOutcomes

LookupGuesses == { GuessFailed, Guessed(S_Gamma_Inc \o <<",">> \o S_Beta_Co) }

LookupSearches == { SearchFailed, Found(<<>>), Found(<<S_Acme_Corp>>),
                    Found(<<S_Gamma_Inc>>), Found(<<S_Beta_Co, S_Gamma_Inc>>) }

RunAnswers == { CallFailed, CallAnswered(S_Acme_Labs \o <<",", " ">> \o S_acme_labs \o <<",">> \o S_Beta_Co) }

NoResult == build_result(None, None, <<>>, <<>>)

\* The history of a run, kept for the statements about it: searched lists the
\* keywords (by index) whose candidates were searched; fetched lists the
\* candidates requested, each with the position <<k, t>> of its title, its
\* URL, whether the request succeeded and what the matcher said of the
\* document; at_match is the copy of both taken when a candidate is accepted;
\* completions and lookups count the uses of the completion service and the
\* searches of the acquisition lookups; found lists, for each keyword
\* searched, the titles its search returned (none when it failed).
NoLog == [searched |-> <<>>, fetched |-> <<>>]

\* The last acquisition lookup made: the entity looked up, the outcome of the
\* keyword guess, the outcomes of the searches (one per keyword; those after
\* the last search made are SearchFailed and were not read) and the wiki_url
\* the entity has afterwards.  It is kept until the resolver starts.
NoLookup == [made |-> FALSE, acq |-> [name |-> <<>>, wiki_url |-> None],
             guess |-> GuessFailed, searches |-> <<>>, wiki_url |-> None]

Candidate(k, t, url, ok, matched) == [k |-> k, t |-> t, url |-> url, ok |-> ok, matched |-> matched]

InitRun ==
    /\ \E w \in RunWebsites, d \in CompanyDocs, c \in Catalogs :
          run = [pc |-> "guess", outcome |-> "running", company_website |-> w,
                 company_doc |-> d, catalog |-> c,
                 keywords |-> <<>>, k |-> 0, titles |-> <<>>, t |-> 0,
                 title |-> <<>>, url |-> None, fetch_ok |-> FALSE, soup |-> EmptySoup,
                 main_domain |-> None, subsidiaries |-> <<>>, acquisitions |-> <<>>, j |-> 0,
                 subsidiaries_with_domains |-> <<>>, result |-> NoResult,
                 searched |-> <<>>, found |-> <<>>, fetched |-> <<>>, at_match |-> NoLog,
                 completions |-> 0, lookups |-> 0, lookup |-> NoLookup]
    /\ norm = Idle /\ path = Idle /\ match = Idle /\ extr = Idle /\ reso = Idle

Init == InitRun

others == <<norm, path, match, extr, reso>>

\* Line 412: the keyword guess fails and nothing catches the exception.
GuessRaises ==
    /\ run.pc = "guess"
    /\ run' = [run EXCEPT !.pc = "returned", !.outcome = "raised", !.completions = @ + 1]
    /\ UNCHANGED others

\* Line 412: the keywords of the answer.
GuessKeywords ==
    /\ run.pc = "guess"
    /\ \E g \in GuessOutcomesIn(run.catalog) :
          /\ g.ok
          /\ run' = [run EXCEPT !.pc = "search", !.k = 1, !.completions = @ + 1,
                       !.keywords = guess_wikipedia_search_keywords(g.content)]
    /\ UNCHANGED others

\* Line 417: the search for keyword k fails and nothing catches the exception.
SearchRaises ==
    /\ run.pc = "search"
    /\ run.k <= Len(run.keywords)
    /\ run' = [run EXCEPT !.pc = "returned", !.outcome = "raised",
                 !.searched = Append(@, run.k), !.found = Append(@, <<>>)]
    /\ UNCHANGED others

\* Lines 415-424: the search for keyword k; with no title the loop goes on to
\* the next keyword.
SearchKeyword ==
    /\ run.pc = "search"
    /\ run.k <= Len(run.keywords)
    /\ \E f \in SearchOutcomesIn(run.catalog, run.k) :
          /\ f.ok
          /\ run' = IF f.titles = <<>>
                    THEN [run EXCEPT !.k = @ + 1, !.searched = Append(@, run.k),
                            !.found = Append(@, f.titles)]
                    ELSE [run EXCEPT !.pc = "fetch", !.titles = f.titles, !.t = 1,
                            !.searched = Append(@, run.k), !.found = Append(@, f.titles)]
    /\ UNCHANGED others

\* Lines 493-494: no keyword is left.
ReturnNone ==
    /\ run.pc = "search"
    /\ run.k > Len(run.keywords)
    /\ run' = [run EXCEPT !.pc = "returned", !.outcome = "none"]
    /\ UNCHANGED others

\* The position after candidate t of keyword k was passed over.
NextCandidate(r) ==
    IF r.t < Len(top_titles(r.titles)) THEN [r EXCEPT !.t = @ + 1]
    ELSE [r EXCEPT !.pc = "search", !.k = @ + 1]

\* Lines 424-433: the fetch of candidate t fails.
FetchFails ==
    /\ run.pc = "fetch"
    /\ run' = NextCandidate([run EXCEPT !.title = run.titles[run.t],
                               !.url = get_wikipedia_page_url(run.titles[run.t]),
                               !.fetch_ok = FALSE,
                               !.fetched = Append(@, Candidate(run.k, run.t,
                                              get_wikipedia_page_url(run.titles[run.t]), FALSE, FALSE))])
    /\ UNCHANGED others

\* Lines 424-440: candidate t is fetched and put to the matcher.
FetchCandidate ==
    /\ run.pc = "fetch"
    /\ LET title == run.titles[run.t]
           url == get_wikipedia_page_url(title)
           soup == Page(run.company_doc, url)
           seen == [run EXCEPT !.title = title, !.url = url, !.fetch_ok = TRUE,
                      !.soup = soup,
                      !.fetched = Append(@, Candidate(run.k, run.t, url, TRUE,
                                     verify_wikipedia_page_match(soup, run.company_website)))]
       IN  run' = IF candidate_accepted(soup, run.company_website)
                  THEN [seen EXCEPT !.pc = "subsidiaries",
                          !.at_match = [searched |-> seen.searched, fetched |-> seen.fetched],
                          !.main_domain = normalize_domain(run.company_website)]
                  ELSE NextCandidate(seen)
    /\ UNCHANGED others

\* Line 441
RunSubsidiaries ==
    /\ run.pc = "subsidiaries"
    /\ \E ai \in (IF subsidiaries_call_made(run.soup, run.title) THEN RunAnswers ELSE {NoCall}) :
          run' = [run EXCEPT !.pc = "acquisitions",
                    !.completions = @ + (IF ai.called THEN 1 ELSE 0),
                    !.subsidiaries = extract_subsidiaries(run.soup, run.title, ai)]
    /\ UNCHANGED others

\* The step after acquisition j: the next acquisition, or the resolver.
AfterLookup(r) ==
    IF r.j < Len(r.acquisitions) THEN [r EXCEPT !.j = @ + 1]
    ELSE [r EXCEPT !.pc = "resolve_subsidiaries"]

\* Line 442
RunAcquisitions ==
    /\ run.pc = "acquisitions"
    /\ \E ai \in (IF acquisitions_call_made(run.soup, run.title) THEN RunAnswers ELSE {NoCall}) :
          LET acquisitions == extract_acquisitions(run.soup, run.title, ai)
          IN  run' = [run EXCEPT !.pc = IF acquisitions = <<>> THEN "resolve_subsidiaries" ELSE "lookup",
                        !.j = 1,
                        !.completions = @ + (IF ai.called THEN 1 ELSE 0),
                        !.acquisitions = acquisitions]
    /\ UNCHANGED others

\* Lines 445-446: acquisition j has a wiki_url (or no name): no lookup.
LookupSkipped ==
    /\ run.pc = "lookup"
    /\ ~needs_lookup(run.acquisitions[run.j])
    /\ run' = AfterLookup(run)
    /\ UNCHANGED others

\* Lines 446-468: the lookup of acquisition j.
LookupAcquisition ==
    /\ run.pc = "lookup"
    /\ needs_lookup(run.acquisitions[run.j])
    /\ \E g \in LookupGuesses :
         LET n == IF g.ok THEN Len(guess_wikipedia_search_keywords(g.content)) ELSE 0
         IN  \E f \in [1..n -> LookupSearches] :
               LET made == IF g.ok THEN lookup_loop(run.acquisitions[run.j].name, run.url, f, 1, n).searched
                           ELSE 0
               IN  \* the outcomes of the searches that are not made are not read
                   /\ \A i \in (made + 1)..n : f[i] = SearchFailed
                   /\ run' = AfterLookup([run EXCEPT
                                !.acquisitions[run.j].wiki_url =
                                    lookup_acquisition(run.acquisitions[run.j], run.url, g, f),
                                !.completions = @ + 1,
                                !.lookups = @ + made,
                                !.lookup = [made |-> TRUE, acq |-> run.acquisitions[run.j],
                                            guess |-> g, searches |-> f,
                                            wiki_url |-> lookup_acquisition(run.acquisitions[run.j],
                                                                            run.url, g, f)]])
    /\ UNCHANGED others

\* Line 471
ResolveSubsidiaries ==
    /\ run.pc = "resolve_subsidiaries"
    /\ \E c \in ChildFetches(run.soup, run.subsidiaries) :
          run' = [run EXCEPT !.pc = "resolve_acquisitions", !.lookup = NoLookup,
                    !.subsidiaries_with_domains =
                        get_linked_entities_with_domains(run.soup, run.subsidiaries, c)]
    /\ UNCHANGED others

\* Lines 472-491
ResolveAcquisitions ==
    /\ run.pc = "resolve_acquisitions"
    /\ \E c \in ChildFetches(run.soup, run.acquisitions) :
          run' = [run EXCEPT !.pc = "returned", !.outcome = "result",
                    !.result = build_result(run.main_domain, run.url,
                                   run.subsidiaries_with_domains,
                                   get_linked_entities_with_domains(run.soup, run.acquisitions, c))]
    /\ UNCHANGED others

Next ==
    \/ GuessRaises \/ GuessKeywords
    \/ SearchRaises \/ SearchKeyword \/ ReturnNone
    \/ FetchFails \/ FetchCandidate
    \/ RunSubsidiaries \/ RunAcquisitions
    \/ LookupSkipped \/ LookupAcquisition
    \/ ResolveSubsidiaries \/ ResolveAcquisitions

Spec == Init /\ [][Next]_vars

\* C2: in every result, in the subsidiaries list and in the acquisitions
\* list, no two entries have names that are equal ignoring case and no entry
\* has a name of 2 characters or fewer.
NoRepeatedOrShortName(entries) ==
    /\ \A i, j \in 1..Len(entries) : i # j => lower(entries[i].name) # lower(entries[j].name)
    /\ \A i \in 1..Len(entries) : Len(entries[i].name) > 2

C2_NoRepeatedOrShortNames ==
    run.outcome = "result" =>
        /\ NoRepeatedOrShortName(run.result.subsidiaries)
        /\ NoRepeatedOrShortName(run.result.acquisitions)

\* C3: a result is built only from a candidate that was fetched and that the
\* matcher passed, the first such one in keyword order then rank order: the
\* candidates were requested in that order, none before the last one was both
\* fetched and matched, the result's URL is the last one's, the keywords
\* searched are those up to the last one's, and from the match on no keyword
\* is searched and no candidate is requested.
PositionBefore(a, b) == a.k < b.k \/ (a.k = b.k /\ a.t < b.t)

AfterMatch == run.pc \in {"subsidiaries", "acquisitions", "lookup", "resolve_subsidiaries",
                          "resolve_acquisitions"} \/ run.outcome = "result"

C3_FirstMatchOnly ==
    LET n == Len(run.fetched)
        last == run.fetched[n]
    IN  /\ AfterMatch =>
              /\ n > 0
              /\ last.ok /\ last.matched
              /\ last.url = run.url
              /\ \A i \in 1..(n - 1) : ~(run.fetched[i].ok /\ run.fetched[i].matched)
              /\ \A i \in 1..(n - 1) : PositionBefore(run.fetched[i], run.fetched[i + 1])
              /\ run.searched = [i \in 1..last.k |-> i]
              /\ run.at_match = [searched |-> run.searched, fetched |-> run.fetched]
        /\ run.outcome = "result" => run.result.wikipedia_url = last.url
        /\ ~AfterMatch => \A i \in 1..n : ~(run.fetched[i].ok /\ run.fetched[i].matched)

\* A result built from the second candidate of the first keyword, the first
\* one having been passed over, with a keyword left that was never searched
\* and acquisitions that were looked up and resolved after the match.
C3_Witness ==
    /\ run.outcome = "result"
    /\ Len(run.fetched) = 2
    /\ run.fetched[2].k = 1 /\ run.fetched[2].t = 2
    /\ Len(run.keywords) = 2
    /\ run.lookups > 0

\* C11 (as stated), for a lookup whose keyword guess and searches all
\* succeeded: the URL assigned is that of the first search result, over the
\* results of the keywords in order and each keyword's results in rank order,
\* whose URL differs from the parent's and whose title has a word of the
\* entity's name longer than 2 characters; no URL when there is none.
Qualifies(title, name, parent_url) ==
    /\ get_wikipedia_page_url(title) # parent_url
    /\ \E w \in { split_ws(lower(name))[i] : i \in 1..Len(split_ws(lower(name))) } :
          Len(w) > 2 /\ contains(lower(title), w)

AllResults(searches) == concat([i \in 1..Len(searches) |-> searches[i].titles])

FirstQualifying(titles, name, parent_url) ==
    LET good == { i \in 1..Len(titles) : Qualifies(titles[i], name, parent_url) }
    IN  IF good = {} THEN None
        ELSE get_wikipedia_page_url(titles[CHOOSE i \in good : \A j \in good : i <= j])

LookupAnswered ==
    /\ run.lookup.made
    /\ run.lookup.guess.ok
    /\ \A i \in 1..Len(run.lookup.searches) : run.lookup.searches[i].ok

C11_FirstQualifyingResult ==
    LookupAnswered =>
        run.lookup.wiki_url =
            FirstQualifying(AllResults(run.lookup.searches), run.lookup.acq.name, run.url)

\* C11 (amended): only the top result of each keyword's search is looked at.
\* The URL assigned is that of the top result of the first keyword, among
\* the keywords before the first failed search, whose top result has a URL
\* other than the parent's and a title holding a word of the entity's name
\* longer than 2 characters; when the guess fails, or there is no such
\* keyword, the entity keeps no URL.  The parent's URL is never assigned.
TopResults(searches) ==
    concat([i \in 1..Len(searches) |->
               IF /\ \A j \in 1..i : searches[j].ok
                  /\ searches[i].titles # <<>>
               THEN <<searches[i].titles[1]>> ELSE <<>>])

C11_FirstQualifyingTopResult ==
    run.lookup.made =>
        /\ run.lookup.acq.wiki_url = None
        /\ run.lookup.wiki_url =
              (IF run.lookup.guess.ok
               THEN FirstQualifying(TopResults(run.lookup.searches), run.lookup.acq.name, run.url)
               ELSE None)
        /\ run.lookup.wiki_url # run.url
        /\ \E i \in 1..Len(run.acquisitions) :
              run.acquisitions[i] = [name |-> run.lookup.acq.name, wiki_url |-> run.lookup.wiki_url]

\* An acquisition named in plain text got the URL of the top result of its
\* second keyword, the top result of the first keyword being the parent.
C11_Witness ==
    /\ run.lookup.made
    /\ run.lookup.guess.ok
    /\ Len(run.lookup.searches) = 2
    /\ run.lookup.searches[1] = Found(<<S_Acme_Corp>>)
    /\ run.lookup.searches[2] = Found(<<S_Gamma_Inc>>)
    /\ run.lookup.acq = [name |-> S_Gamma_Inc, wiki_url |-> None]
    /\ run.lookup.wiki_url = get_wikipedia_page_url(S_Gamma_Inc)
    /\ run.pc = "resolve_subsidiaries"
    /\ run.acquisitions = <<[name |-> S_Gamma_Inc, wiki_url |-> get_wikipedia_page_url(S_Gamma_Inc)]>>

\* C12: for each keyword the candidates are requested in rank order, from
\* rank 1 on, each once, among the first 8 titles of that keyword's search
\* only; the next keyword is searched only after the last of them; and a
\* failed request is never retried: the run goes on to the next title, or to
\* the next keyword when the 8-title prefix is exhausted.
PrefixLen(k) == IF Len(run.found[k]) < 8 THEN Len(run.found[k]) ELSE 8

C12_RankOrderWithinPrefix ==
    LET n == Len(run.fetched)
        last == run.fetched[n]
    IN  /\ Len(run.found) = Len(run.searched)
        /\ \A i \in 1..n :
              LET c == run.fetched[i]
              IN  /\ c.k \in 1..Len(run.found)
                  /\ c.t \in 1..PrefixLen(c.k)
                  /\ c.url = get_wikipedia_page_url(run.found[c.k][c.t])
                  /\ (i = 1 \/ run.fetched[i - 1].k # c.k) => c.t = 1
                  /\ i > 1 =>
                        LET b == run.fetched[i - 1]
                        IN  \/ b.k = c.k /\ c.t = b.t + 1
                            \/ b.k < c.k /\ b.t = PrefixLen(b.k) /\ ~(b.ok /\ b.matched)
        /\ (n > 0 /\ ~last.ok) =>
              IF last.t < PrefixLen(last.k)
              THEN run.pc = "fetch" /\ run.k = last.k /\ run.t = last.t + 1
              ELSE run.pc \in {"search", "fetch", "returned"} /\ run.k > last.k
                   /\ run.outcome # "result"

\* The search for the first keyword returned nine titles: the first eight
\* were requested, one request each, the third failed and the fourth
\* followed it, the ninth was never requested, and the second keyword was
\* searched.
C12_Witness ==
    /\ Len(run.found) = 2
    /\ Len(run.found[1]) = 9
    /\ Len(run.fetched) = 8
    /\ \A i \in 1..8 : run.fetched[i].k = 1 /\ run.fetched[i].t = i
    /\ ~run.fetched[3].ok
    /\ run.fetched[4].ok
    /\ ~run.fetched[8].ok

\* C4: every run ends with a result or with none, whatever fails: a keyword
\* guess that fails counts as no keyword, a search that fails as no title.
C4_NeverEndsWithError ==
    run.pc = "returned" => run.outcome \in {"result", "none"}

\* C7: in every result, main_domain is lower-case, without a scheme, without
\* a leading "www." and without a path, port or fragment part.
IsNormalizedDomain(d) ==
    /\ d # None
    /\ d = lower(d)
    /\ ~contains(d, <<":", "/", "/">>)
    /\ ~startswith(d, S_www)
    /\ \A i \in 1..Len(d) : d[i] \notin {"/", ":", "#"}

C7_MainDomainNormalized ==
    run.outcome = "result" => IsNormalizedDomain(run.result.main_domain)

====
